---- MODULE Spec2Model ----
(***************************************************************************)
(* Brokemate API (src/main.py): the in-memory credential store, the bearer *)
(* token gate and the per-user expense ledger, as a state machine.         *)
(*                                                                         *)
(* Python objects are modelled with their identity where the code depends  *)
(* on it: user_expenses maps a username to a reference to a list object,   *)
(* heap maps each list reference to the list's contents.  A handler that   *)
(* does user_db = user_expenses.get(...) holds a reference, so an append   *)
(* through it is seen by every holder of the same list, while the list     *)
(* comprehension of delete_expense builds a new list object.               *)
(***************************************************************************)
EXTENDS Integers, Sequences, FiniteSets, TLC

VARIABLES fake_users_db, user_expenses, heap, now, last_insert, deleted_lower, pc, loc

vars == <<fake_users_db, user_expenses, heap, now, last_insert, deleted_lower, pc, loc>>

(***************************************************************************)
(* Bounds of the model.                                                    *)
(***************************************************************************)
\* most records held by all ledgers together (add is not offered beyond it)
MaxRecords == 3
\* largest id add may assign (add is not offered beyond it)
MaxId == 4
\* request threads of the worker pool (concurrent specification)
MaxThreads == 2
\* the clock stops here
MaxTime == 32

(***************************************************************************)
(* Program constants and input domains.                                    *)
(***************************************************************************)
ACCESS_TOKEN_EXPIRE_MINUTES == 30
DEFAULT_EXPIRE_MINUTES == 15

None == "None"
test_user == "user@example.com"
UserOrder == <<test_user, "alice", "bob">>
Usernames == {UserOrder[i] : i \in 1..Len(UserOrder)}
Passwords == {"password123", "pw1"}
Threads == 1..MaxThreads

\* a datetime.date value
Date(y, m, d) == [year |-> y, month |-> m, day |-> d]

\* date.isoformat(): the string "YYYY-MM-DD", kept as its three fixed-width
\* zero-padded fields, so that string order is the order of the field tuples
isoformat(d) == <<d.year, d.month, d.day>>

\* Python's < on two ISO date strings (lexicographic, fixed width)
StrLess(a, b) ==
    \/ a[1] < b[1]
    \/ a[1] = b[1] /\ a[2] < b[2]
    \/ a[1] = b[1] /\ a[2] = b[2] /\ a[3] < b[3]

\* amounts are floats in the code; the model counts hundredths
\* request bodies offered to add_expense and edit_expense (ExpenseCreate)
ValidExpenses ==
    { [amount |-> 10000, category |-> "Food", description |-> None,
       date |-> Date(2025, 9, 26)],
      [amount |-> 4050, category |-> "Rent", description |-> "flat",
       date |-> Date(2025, 10, 1)] }
InvalidExpenses ==
    { [amount |-> 0, category |-> "Food", description |-> None,
       date |-> Date(2025, 9, 26)],
      [amount |-> -500, category |-> "Food", description |-> None,
       date |-> Date(2025, 9, 26)] }
Expenses == ValidExpenses \cup InvalidExpenses
Flags == {"red", "green"}
\* flag values a request body may carry
FlagInputs == Flags \cup {"blue"}
ExpenseIds == 1..MaxId

\* mutant: ge=0 instead of gt=0
ExpenseBase_valid_ge(expense) == expense.amount >= 0

\* class ExpenseBase: amount: float = Field(..., gt=0)
ExpenseBase_valid(expense) == expense.amount > 0

\* class FlagUpdate: flag: Literal['red', 'green']
FlagUpdate_valid(flag_update) == flag_update.flag \in Flags

(***************************************************************************)
(* Passwords.                                                              *)
(***************************************************************************)
get_password_hash(password) == [scheme |-> "bcrypt", digest |-> password]

\* mutant: any password passes once the hash is a bcrypt hash
verify_password_scheme(plain_password, hashed_password) ==
    hashed_password.scheme = "bcrypt"

verify_password(plain_password, hashed_password) ==
    /\ hashed_password.scheme = "bcrypt"
    /\ hashed_password.digest = plain_password

(***************************************************************************)
(* Tokens.  A bearer credential is absent, not a JWT at all, or a JWT with *)
(* a signing key, a subject claim (None when the payload has no "sub")     *)
(* and an expiry.                                                          *)
(***************************************************************************)
SECRET_KEY == "a_very_secret_key_that_should_be_in_an_env_file"
NoToken == [form |-> "missing", key |-> None, sub |-> None, exp |-> 0]
Garbage == [form |-> "malformed", key |-> None, sub |-> None, exp |-> 0]
Jwt(key, sub, exp) == [form |-> "jwt", key |-> key, sub |-> sub, exp |-> exp]

\* Optional[timedelta] in minutes; "if expires_delta:" is false for None and
\* for a zero timedelta alike
NoDelta == 0

\* mutant: the expires_delta argument is ignored
create_access_token_default(data, expires_delta, utcnow) ==
    Jwt(SECRET_KEY, data.sub, utcnow + DEFAULT_EXPIRE_MINUTES)

create_access_token(data, expires_delta, utcnow) ==
    LET expire == IF expires_delta # NoDelta
                  THEN utcnow + expires_delta
                  ELSE utcnow + DEFAULT_EXPIRE_MINUTES
    IN  Jwt(SECRET_KEY, data.sub, expire)

\* mutant: decode with verify_exp switched off
jwt_decode_noexp(token, utcnow) ==
    IF token.form # "jwt" THEN [error |-> "JWTError"]
    ELSE IF token.key # SECRET_KEY THEN [error |-> "JWTError"]
    ELSE [error |-> None, sub |-> token.sub]

\* jwt.decode: the payload, or JWTError for a string that is no JWT, a
\* signature made with another key, or an expiry that has passed
JWTError == [error |-> "JWTError"]
jwt_decode(token, utcnow) ==
    IF token.form # "jwt" THEN JWTError
    ELSE IF token.key # SECRET_KEY THEN JWTError
    ELSE IF token.exp < utcnow THEN JWTError
    ELSE [error |-> None, sub |-> token.sub]

\* get_user returns None for a username that is no key of db
NoUser == [username |-> None, hashed_password |-> [scheme |-> None, digest |-> None]]
get_user(db, username) ==
    IF username \in DOMAIN db
    THEN [username |-> username, hashed_password |-> db[username].hashed_password]
    ELSE NoUser

Unauthorized == [username |-> None, status |-> 401]

\* mutant: the identity is the seeded test user whatever the subject says
get_current_user_fixed(token) ==
    IF token.form = "missing" THEN Unauthorized
    ELSE LET payload == jwt_decode(token, now)
         IN  IF payload.error # None THEN Unauthorized
             ELSE IF payload.sub = None THEN Unauthorized
             ELSE IF get_user(fake_users_db, payload.sub).username = None THEN Unauthorized
             ELSE [username |-> test_user, status |-> 200]

\* OAuth2PasswordBearer answers 401 itself when there is no bearer token
get_current_user(token) ==
    IF token.form = "missing" THEN Unauthorized
    ELSE LET payload == jwt_decode(token, now)
         IN  IF payload.error # None THEN Unauthorized
             ELSE IF payload.sub = None THEN Unauthorized
             ELSE IF get_user(fake_users_db, payload.sub).username = None THEN Unauthorized
             ELSE [username |-> payload.sub, status |-> 200]

(***************************************************************************)
(* The ledger store.                                                       *)
(***************************************************************************)
Range(s) == {s[i] : i \in DOMAIN s}

Max(S) == CHOOSE x \in S : \A y \in S : y <= x

\* user_expenses.get(username, []): the list bound to the key, or a new list
Bound(username) == username \in DOMAIN user_expenses

Ledger(username) ==
    IF Bound(username) THEN heap[user_expenses[username]] ELSE <<>>

\* mutant: the smallest id that no record of the ledger has
NewId_gap(user_db) ==
    CHOOSE n \in 1..(Len(user_db) + 1) :
        /\ \A i \in DOMAIN user_db : user_db[i].id # n
        /\ \A m \in 1..(n - 1) : \E i \in DOMAIN user_db : user_db[i].id = m

\* mutant: the id of the first record plus 1
NewId_first(user_db) == IF Len(user_db) = 0 THEN 1 ELSE user_db[1].id + 1

\* mutant: len(user_db) + 1
NewId_len(user_db) == Len(user_db) + 1

\* mutant: the maximum itself, the + 1 forgotten
NewId_max(user_db) ==
    IF Len(user_db) = 0 THEN 0 ELSE Max({user_db[i].id : i \in DOMAIN user_db})

\* max((d['id'] for d in user_db), default=0) + 1
NewId(user_db) ==
    (IF Len(user_db) = 0 THEN 0 ELSE Max({user_db[i].id : i \in DOMAIN user_db})) + 1

\* expense.model_dump() with id and flag added and the date as ISO string
NewExpenseData(expense, new_id) ==
    [id |-> new_id, amount |-> expense.amount, category |-> expense.category,
     description |-> expense.description, date |-> isoformat(expense.date),
     flag |-> None]

\* mutant: the item is replaced by the dumped body, so its flag is reset
UpdatedItem_reset(item, expense_update) ==
    [id |-> item.id, amount |-> expense_update.amount,
     category |-> expense_update.category,
     description |-> expense_update.description,
     date |-> isoformat(expense_update.date), flag |-> None]

\* item.update(updated_data): the four dumped fields replace the item's
UpdatedItem(item, expense_update) ==
    [item EXCEPT !.amount = expense_update.amount,
                 !.category = expense_update.category,
                 !.description = expense_update.description,
                 !.date = isoformat(expense_update.date)]

\* mutant: the flag is written to the category key
FlaggedItem_category(item, flag) == [item EXCEPT !.category = flag]

\* item['flag'] = flag_update.flag
FlaggedItem(item, flag) == [item EXCEPT !.flag = flag]

\* mutant: an id that is not found selects the last item (index -1)
IndexOf_last(user_db, expense_id) ==
    IF \E i \in DOMAIN user_db : user_db[i].id = expense_id
    THEN CHOOSE i \in DOMAIN user_db :
            /\ user_db[i].id = expense_id
            /\ \A j \in 1..(i - 1) : user_db[j].id # expense_id
    ELSE Len(user_db)

\* the first index of user_db holding the id, 0 when none does
IndexOf(user_db, expense_id) ==
    IF \E i \in DOMAIN user_db : user_db[i].id = expense_id
    THEN CHOOSE i \in DOMAIN user_db :
            /\ user_db[i].id = expense_id
            /\ \A j \in 1..(i - 1) : user_db[j].id # expense_id
    ELSE 0

\* mutant: del user_db[expense_id - 1], the id taken for a position
WithoutId_index(user_db, expense_id) ==
    IF expense_id \in DOMAIN user_db
    THEN [i \in 1..(Len(user_db) - 1) |->
             IF i < expense_id THEN user_db[i] ELSE user_db[i + 1]]
    ELSE user_db

\* [item for item in user_db if item['id'] != expense_id]
RECURSIVE WithoutId(_, _)
WithoutId(user_db, expense_id) ==
    IF user_db = <<>> THEN <<>>
    ELSE IF Head(user_db).id = expense_id
         THEN WithoutId(Tail(user_db), expense_id)
         ELSE <<Head(user_db)>> \o WithoutId(Tail(user_db), expense_id)

\* mutant: reverse=True forgotten, the dates ascend
RECURSIVE InsertDesc_asc(_, _)
InsertDesc_asc(sorted, item) ==
    IF sorted = <<>> THEN <<item>>
    ELSE IF StrLess(item.date, Head(sorted).date)
         THEN <<item>> \o sorted
         ELSE <<Head(sorted)>> \o InsertDesc_asc(Tail(sorted), item)

\* mutant: an item goes before the items of its own date
RECURSIVE InsertDesc_unstable(_, _)
InsertDesc_unstable(sorted, item) ==
    IF sorted = <<>> THEN <<item>>
    ELSE IF ~StrLess(item.date, Head(sorted).date)
         THEN <<item>> \o sorted
         ELSE <<Head(sorted)>> \o InsertDesc_unstable(Tail(sorted), item)

\* sorted(user_db, key=lambda x: x['date'], reverse=True): a stable sort, so
\* an item goes after every item whose date is not smaller than its own
RECURSIVE InsertDesc(_, _)
InsertDesc(sorted, item) ==
    IF sorted = <<>> THEN <<item>>
    ELSE IF StrLess(Head(sorted).date, item.date)
         THEN <<item>> \o sorted
         ELSE <<Head(sorted)>> \o InsertDesc(Tail(sorted), item)

RECURSIVE SortedByDateDesc(_)
SortedByDateDesc(user_db) ==
    IF user_db = <<>> THEN <<>>
    ELSE InsertDesc(SortedByDateDesc(SubSeq(user_db, 1, Len(user_db) - 1)),
                    user_db[Len(user_db)])

(***************************************************************************)
(* List objects.  References are renumbered after every step in the order  *)
(* in which the users' bindings and then the threads' locals first name    *)
(* them, and a list nothing refers to is dropped: Python shows no          *)
(* difference between two heaps that differ in the numbering only.         *)
(***************************************************************************)
NoRef == 0

Roots(ue, lc) ==
    [i \in 1..Len(UserOrder) |->
        IF UserOrder[i] \in DOMAIN ue THEN ue[UserOrder[i]] ELSE NoRef]
    \o [t \in 1..MaxThreads |-> lc[t].user_db]

FirstAt(roots, r) == CHOOSE i \in DOMAIN roots :
                        roots[i] = r /\ \A j \in 1..(i - 1) : roots[j] # r

Rank(roots, r) ==
    IF r = NoRef THEN NoRef
    ELSE Cardinality({roots[j] : j \in 1..FirstAt(roots, r)} \ {NoRef})

\* the next state's store: bindings ue, list contents hp, thread locals lc
Commit(ue, hp, lc) ==
    LET roots == Roots(ue, lc)
        live == Range(roots) \ {NoRef}
    IN  /\ user_expenses' = [u \in DOMAIN ue |-> Rank(roots, ue[u])]
        /\ heap' = [n \in 1..Cardinality(live) |->
                      hp[CHOOSE r \in live : Rank(roots, r) = n]]
        /\ loc' = [t \in Threads |->
                      [lc[t] EXCEPT !.user_db = Rank(roots, lc[t].user_db)]]

\* a reference no list has yet
NewRef == Cardinality(DOMAIN heap) + 1

\* heap with one more list, or one list replaced
HeapWith(r, list) == [n \in DOMAIN heap \cup {r} |-> IF n = r THEN list ELSE heap[n]]

TotalRecords ==
    LET RECURSIVE Sum(_)
        Sum(n) == IF n = 0 THEN 0 ELSE Len(heap[n]) + Sum(n - 1)
    IN  Sum(Cardinality(DOMAIN heap))

(***************************************************************************)
(* A handler is an operator from the store and the request to an Outcome:  *)
(* the store it leaves (credentials db, bindings ue, list contents hp) and *)
(* the response it returns.                                                *)
(***************************************************************************)
\* user: the identity the request was resolved to; body: the records
\* returned; token: the access token returned; calls: calls of call_ollama
Response(user, status, body) ==
    [user |-> user, status |-> status, body |-> body, token |-> NoToken, calls |-> 0]

Outcome(db, ue, hp, response) == [db |-> db, ue |-> ue, hp |-> hp, resp |-> response]

\* raise HTTPException, or return without a write to the store
Returns(response) == Outcome(fake_users_db, user_expenses, heap, response)

\* mutant: no membership check, the username is stored again
register_user_overwrite(user) ==
    Outcome((user.username :> [username |-> user.username,
                               hashed_password |-> get_password_hash(user.password)])
                @@ fake_users_db,
            (user.username :> NewRef) @@ user_expenses,
            HeapWith(NewRef, <<>>),
            Response(user.username, 201, <<>>))

\* POST /register
register_user(user) ==
    IF user.username \in DOMAIN fake_users_db
    THEN Returns(Response(None, 400, <<>>))
    ELSE LET hashed_password == get_password_hash(user.password)
             new_user == [username |-> user.username,
                          hashed_password |-> hashed_password]
         IN  Outcome((user.username :> new_user) @@ fake_users_db,
                     (user.username :> NewRef) @@ user_expenses,
                     HeapWith(NewRef, <<>>),
                     Response(user.username, 201, <<>>))

\* POST /token
login_for_access_token(form_data) ==
    LET user == get_user(fake_users_db, form_data.username)
    IN  IF user.username = None
        THEN Returns(Response(None, 401, <<>>))
        ELSE IF ~verify_password(form_data.password, user.hashed_password)
        THEN Returns(Response(None, 401, <<>>))
        ELSE Returns([Response(user.username, 200, <<>>)
                        EXCEPT !.token = create_access_token(
                                   [sub |-> user.username],
                                   ACCESS_TOKEN_EXPIRE_MINUTES, now)])

\* GET /expenses
get_expenses(token) ==
    LET current_user == get_current_user(token)
    IN  IF current_user.status = 401
        THEN Returns(Response(None, 401, <<>>))
        ELSE Returns(Response(current_user.username, 200,
                              SortedByDateDesc(Ledger(current_user.username))))

\* POST /add-expense
add_expense(token, expense) ==
    LET current_user == get_current_user(token)
    IN  IF current_user.status = 401
        THEN Returns(Response(None, 401, <<>>))
        ELSE IF ~ExpenseBase_valid(expense)
        THEN Returns(Response(current_user.username, 422, <<>>))
        ELSE LET username == current_user.username
                 user_db == IF Bound(username) THEN user_expenses[username] ELSE NewRef
                 new_id == NewId(Ledger(username))
                 new_expense_data == NewExpenseData(expense, new_id)
             IN  Outcome(fake_users_db,
                         (username :> user_db) @@ user_expenses,
                         HeapWith(user_db, Append(Ledger(username), new_expense_data)),
                         Response(username, 201, <<new_expense_data>>))

\* PUT /edit-expense/{expense_id}
edit_expense(token, expense_id, expense_update) ==
    LET current_user == get_current_user(token)
    IN  IF current_user.status = 401
        THEN Returns(Response(None, 401, <<>>))
        ELSE IF ~ExpenseBase_valid(expense_update)
        THEN Returns(Response(current_user.username, 422, <<>>))
        ELSE LET username == current_user.username
                 user_db == Ledger(username)
                 index == IndexOf(user_db, expense_id)
             IN  IF index = 0
                 THEN Returns(Response(username, 404, <<>>))
                 ELSE LET item == UpdatedItem(user_db[index], expense_update)
                      IN  Outcome(fake_users_db, user_expenses,
                                  HeapWith(user_expenses[username],
                                           [user_db EXCEPT ![index] = item]),
                                  Response(username, 200, <<item>>))

\* POST /flag-expense
flag_expense(token, flag_update) ==
    LET current_user == get_current_user(token)
    IN  IF current_user.status = 401
        THEN Returns(Response(None, 401, <<>>))
        ELSE IF ~FlagUpdate_valid(flag_update)
        THEN Returns(Response(current_user.username, 422, <<>>))
        ELSE LET username == current_user.username
                 user_db == Ledger(username)
                 index == IndexOf(user_db, flag_update.id)
             IN  IF index = 0
                 THEN Returns(Response(username, 404, <<>>))
                 ELSE LET item == FlaggedItem(user_db[index], flag_update.flag)
                      IN  Outcome(fake_users_db, user_expenses,
                                  HeapWith(user_expenses[username],
                                           [user_db EXCEPT ![index] = item]),
                                  Response(username, 200, <<item>>))

\* DELETE /delete-expense/{expense_id}
delete_expense(token, expense_id) ==
    LET current_user == get_current_user(token)
    IN  IF current_user.status = 401
        THEN Returns(Response(None, 401, <<>>))
        ELSE LET username == current_user.username
                 original_count == Len(Ledger(username))
                 user_db == WithoutId(Ledger(username), expense_id)
             IN  IF Len(user_db) = original_count
                 THEN Returns(Response(username, 404, <<>>))
                 ELSE Outcome(fake_users_db,
                              (username :> NewRef) @@ user_expenses,
                              HeapWith(NewRef, user_db),
                              Response(username, 204, <<>>))

\* what the try block of call_ollama may do: return the content, or raise
\* Timeout (no answer within 30 s), ConnectionError (the service cannot be
\* reached), HTTPError (raise_for_status on an error status of the
\* service) or KeyError (an answer without message.content)
OllamaOutcomes == {"ok", "Timeout", "ConnectionError", "HTTPError", "KeyError"}

\* the classes of requests.exceptions: Timeout, ConnectionError and
\* HTTPError are subclasses of RequestException
RequestExceptions == {"Timeout", "ConnectionError", "HTTPError"}

\* call_ollama: the status the request ends with, by the first except
\* clause that matches
call_ollama(outcome) ==
    CASE outcome = "ok" -> 200
      [] outcome = "Timeout" -> 504
      [] outcome \in RequestExceptions \ {"Timeout"} -> 503
      [] OTHER -> 500

\* POST /analyze
analyze_expenses(token, outcome) ==
    LET current_user == get_current_user(token)
    IN  IF current_user.status = 401
        THEN Returns(Response(None, 401, <<>>))
        ELSE IF Ledger(current_user.username) = <<>>
        THEN Returns(Response(current_user.username, 200, <<>>))
        ELSE Returns([Response(current_user.username, call_ollama(outcome), <<>>)
                        EXCEPT !.calls = 1])

\* POST /chat
chat_with_ai(token, outcome) ==
    LET current_user == get_current_user(token)
    IN  IF current_user.status = 401
        THEN Returns(Response(None, 401, <<>>))
        ELSE Returns([Response(current_user.username, call_ollama(outcome), <<>>)
                        EXCEPT !.calls = 1])

(***************************************************************************)
(* Initial state: the module-level statements of main.py.                  *)
(***************************************************************************)
SeedExpenses ==
    << [id |-> 1, amount |-> 25000, category |-> "Food",
        description |-> "Lunch with colleagues", date |-> <<2025, 9, 27>>,
        flag |-> None],
       [id |-> 2, amount |-> 120050, category |-> "Shopping",
        description |-> "New headphones", date |-> <<2025, 9, 26>>,
        flag |-> "red"],
       [id |-> 3, amount |-> 15000, category |-> "Transport",
        description |-> "Metro card recharge", date |-> <<2025, 9, 25>>,
        flag |-> "green"] >>

\* the locals of a handler that is not running
NoExpense == [amount |-> 0, category |-> None, description |-> None,
              date |-> Date(0, 0, 0)]
IdleLocals == [username |-> None, password |-> None, user_db |-> NoRef,
               expense |-> NoExpense, expense_id |-> 0, original_count |-> 0,
               new_id |-> 0]

Boot ==
    /\ fake_users_db = (test_user :> [username |-> test_user,
                                      hashed_password |-> get_password_hash("password123")])
    /\ user_expenses = (test_user :> 1)
    /\ heap = (1 :> SeedExpenses)
    /\ now = 0
    /\ pc = [t \in Threads |-> "idle"]
    /\ loc = [t \in Threads |-> IdleLocals]

(***************************************************************************)
(* Requests handled one at a time: a step is a whole handler.              *)
(***************************************************************************)
\* the store after the handler; add_expense is offered while the model's
\* bounds on the ledgers allow the record it would append
Serve(outcome) ==
    /\ fake_users_db' = outcome.db
    /\ Commit(outcome.ue, outcome.hp, loc)
    /\ UNCHANGED <<now, pc>>

\* history: the id add_expense assigned last in the one ledger being watched
Inserted(response) ==
    last_insert' = IF response.status = 201 /\ response.user = last_insert.username
                   THEN [last_insert EXCEPT !.id = response.body[1].id]
                   ELSE last_insert

\* history: the ids of the records of the one ledger being watched that
\* were deleted while the ledger held a record with a larger id
Deleted(response, expense_id) ==
    deleted_lower' =
        IF /\ response.status = 204
           /\ response.user = deleted_lower.username
           /\ \E i \in DOMAIN Ledger(response.user) :
                 Ledger(response.user)[i].id > expense_id
        THEN [deleted_lower EXCEPT !.ids = @ \cup {expense_id}]
        ELSE deleted_lower

WithinBounds(response) ==
    response.status = 201 =>
        /\ response.body[1].id <= MaxId
        /\ TotalRecords < MaxRecords

Post_register(user) ==
    Serve(register_user(user)) /\ UNCHANGED <<last_insert, deleted_lower>>

Post_token(form_data) ==
    Serve(login_for_access_token(form_data)) /\ UNCHANGED <<last_insert, deleted_lower>>

Get_expenses(token) ==
    Serve(get_expenses(token)) /\ UNCHANGED <<last_insert, deleted_lower>>

Post_add_expense(token, expense) ==
    /\ WithinBounds(add_expense(token, expense).resp)
    /\ Serve(add_expense(token, expense))
    /\ Inserted(add_expense(token, expense).resp)
    /\ UNCHANGED deleted_lower

Put_edit_expense(token, expense_id, expense_update) ==
    Serve(edit_expense(token, expense_id, expense_update)) /\ UNCHANGED <<last_insert, deleted_lower>>

Post_flag_expense(token, flag_update) ==
    Serve(flag_expense(token, flag_update)) /\ UNCHANGED <<last_insert, deleted_lower>>

Delete_delete_expense(token, expense_id) ==
    /\ Serve(delete_expense(token, expense_id))
    /\ Deleted(delete_expense(token, expense_id).resp, expense_id)
    /\ UNCHANGED last_insert

Post_analyze(token, outcome) ==
    Serve(analyze_expenses(token, outcome)) /\ UNCHANGED <<last_insert, deleted_lower>>

Post_chat(token, outcome) ==
    Serve(chat_with_ai(token, outcome)) /\ UNCHANGED <<last_insert, deleted_lower>>

\* the clock of datetime.utcnow(), in minutes
TickSteps == {DEFAULT_EXPIRE_MINUTES, DEFAULT_EXPIRE_MINUTES + 1}
Tick ==
    /\ \E d \in TickSteps : now + d <= MaxTime /\ now' = now + d
    /\ UNCHANGED <<fake_users_db, user_expenses, heap, last_insert, deleted_lower,
                   pc, loc>>

(***************************************************************************)
(* Requests handled by the threads of the worker pool: add_expense and     *)
(* delete_expense are plain def handlers, which the framework runs in      *)
(* threads, and they take no lock.  A step is a line of the handler, named *)
(* by the line it is about to execute; pc is that line, loc the handler's  *)
(* local variables.                                                        *)
(***************************************************************************)
ThreadStep(t, line, ue, hp, locals) ==
    /\ Commit(ue, hp, [loc EXCEPT ![t] = locals])
    /\ pc' = [pc EXCEPT ![t] = line]
    /\ UNCHANGED <<fake_users_db, now>>

\* the dependency and the body validation pass and the handler is called
Call_add_expense(t, token, expense) ==
    /\ pc[t] = "idle"
    /\ get_current_user(token).status = 200
    /\ ExpenseBase_valid(expense)
    /\ ThreadStep(t, "add_204", user_expenses, heap,
                  [IdleLocals EXCEPT !.username = get_current_user(token).username,
                                     !.expense = expense])
    /\ UNCHANGED <<last_insert, deleted_lower>>

\* user_db = user_expenses.get(current_user.username, [])
Add_204(t) ==
    /\ pc[t] = "add_204"
    /\ LET username == loc[t].username
       IN  IF Bound(username)
           THEN ThreadStep(t, "add_205", user_expenses, heap,
                           [loc[t] EXCEPT !.user_db = user_expenses[username]])
           ELSE ThreadStep(t, "add_205", user_expenses, HeapWith(NewRef, <<>>),
                           [loc[t] EXCEPT !.user_db = NewRef])
    /\ UNCHANGED <<last_insert, deleted_lower>>

\* new_id = max((d['id'] for d in user_db), default=0) + 1
Add_205(t) ==
    /\ pc[t] = "add_205"
    /\ ThreadStep(t, "add_209", user_expenses, heap,
                  [loc[t] EXCEPT !.new_id = NewId(heap[loc[t].user_db])])
    /\ UNCHANGED <<last_insert, deleted_lower>>

\* user_db.append(new_expense_data)
Add_209(t) ==
    /\ pc[t] = "add_209"
    /\ LET user_db == loc[t].user_db
           new_expense_data == NewExpenseData(loc[t].expense, loc[t].new_id)
       IN  ThreadStep(t, "add_210", user_expenses,
                      HeapWith(user_db, Append(heap[user_db], new_expense_data)),
                      loc[t])
    /\ UNCHANGED <<last_insert, deleted_lower>>

\* user_expenses[current_user.username] = user_db; return new_expense_data
Add_210(t) ==
    /\ pc[t] = "add_210"
    /\ ThreadStep(t, "add_201", (loc[t].username :> loc[t].user_db) @@ user_expenses,
                  heap, [loc[t] EXCEPT !.user_db = NoRef])
    /\ Inserted(Response(loc[t].username, 201,
                         <<NewExpenseData(loc[t].expense, loc[t].new_id)>>))
    /\ UNCHANGED deleted_lower

Call_delete_expense(t, token, expense_id) ==
    /\ pc[t] = "idle"
    /\ get_current_user(token).status = 200
    /\ ThreadStep(t, "del_238", user_expenses, heap,
                  [IdleLocals EXCEPT !.username = get_current_user(token).username,
                                     !.expense_id = expense_id])
    /\ UNCHANGED <<last_insert, deleted_lower>>

\* user_db = user_expenses.get(current_user.username, [])
Del_238(t) ==
    /\ pc[t] = "del_238"
    /\ LET username == loc[t].username
       IN  IF Bound(username)
           THEN ThreadStep(t, "del_239", user_expenses, heap,
                           [loc[t] EXCEPT !.user_db = user_expenses[username]])
           ELSE ThreadStep(t, "del_239", user_expenses, HeapWith(NewRef, <<>>),
                           [loc[t] EXCEPT !.user_db = NewRef])
    /\ UNCHANGED <<last_insert, deleted_lower>>

\* original_count = len(user_db)
Del_239(t) ==
    /\ pc[t] = "del_239"
    /\ ThreadStep(t, "del_240", user_expenses, heap,
                  [loc[t] EXCEPT !.original_count = Len(heap[loc[t].user_db])])
    /\ UNCHANGED <<last_insert, deleted_lower>>

\* user_db = [item for ...]; if len(user_db) == original_count: raise 404
Del_240(t) ==
    /\ pc[t] = "del_240"
    /\ LET user_db == WithoutId(heap[loc[t].user_db], loc[t].expense_id)
       IN  IF Len(user_db) = loc[t].original_count
           THEN ThreadStep(t, "del_404", user_expenses, heap,
                           [loc[t] EXCEPT !.user_db = NoRef])
           ELSE ThreadStep(t, "del_243", user_expenses, HeapWith(NewRef, user_db),
                           [loc[t] EXCEPT !.user_db = NewRef])
    /\ UNCHANGED <<last_insert, deleted_lower>>

\* user_expenses[current_user.username] = user_db; return
Del_243(t) ==
    /\ pc[t] = "del_243"
    /\ ThreadStep(t, "del_204", (loc[t].username :> loc[t].user_db) @@ user_expenses,
                  heap, [loc[t] EXCEPT !.user_db = NoRef])
    /\ Deleted(Response(loc[t].username, 204, <<>>), loc[t].expense_id)
    /\ UNCHANGED last_insert

\* register_user is a plain def handler too
Call_register(t, user) ==
    /\ pc[t] = "idle"
    /\ ThreadStep(t, "reg_169", user_expenses, heap,
                  [IdleLocals EXCEPT !.username = user.username,
                                     !.password = user.password])
    /\ UNCHANGED <<last_insert, deleted_lower>>

\* if user.username in fake_users_db: raise 400
Reg_169(t) ==
    /\ pc[t] = "reg_169"
    /\ IF loc[t].username \in DOMAIN fake_users_db
       THEN ThreadStep(t, "reg_400", user_expenses, heap, loc[t])
       ELSE ThreadStep(t, "reg_173", user_expenses, heap, loc[t])
    /\ UNCHANGED <<last_insert, deleted_lower>>

\* hashed_password = ...; new_user = ...; fake_users_db[user.username] = ...
Reg_173(t) ==
    /\ pc[t] = "reg_173"
    /\ LET hashed_password == get_password_hash(loc[t].password)
           new_user == [username |-> loc[t].username,
                        hashed_password |-> hashed_password]
       IN  fake_users_db' = (loc[t].username :> new_user) @@ fake_users_db
    /\ Commit(user_expenses, heap, loc)
    /\ pc' = [pc EXCEPT ![t] = "reg_174"]
    /\ UNCHANGED <<now, last_insert, deleted_lower>>

\* user_expenses[user.username] = []; return new_user
Reg_174(t) ==
    /\ pc[t] = "reg_174"
    /\ ThreadStep(t, "reg_201", (loc[t].username :> NewRef) @@ user_expenses,
                  HeapWith(NewRef, <<>>), loc[t])
    /\ UNCHANGED <<last_insert, deleted_lower>>

(***************************************************************************)
(* Specifications.                                                         *)
(***************************************************************************)
UserCreates(usernames, passwords) == [username : usernames, password : passwords]
FlagUpdates(flags) == [id : ExpenseIds, flag : flags]

\* the token a login issued at time t carries
IssuedAt(username, t) ==
    create_access_token([sub |-> username], ACCESS_TOKEN_EXPIRE_MINUTES, t)

\* the token a login at the present time issues
TokenOf(username) == IssuedAt(username, now)

\* Spec: the ledger service with two tenants, the seeded test user and one
\* who registers; every ledger handler; a valid and an invalid request
\* body; the tenants' tokens (alice's names no user until she registers)
\* and a request without token
Tenants == {test_user, "alice"}
LedgerTokens == {TokenOf(u) : u \in Tenants} \cup {NoToken}
ValidExpense == [amount |-> 10000, category |-> "Food", description |-> None,
                 date |-> Date(2025, 9, 26)]
LedgerExpenses == {ValidExpense, [ValidExpense EXCEPT !.amount = 0]}

NoHistory == [username |-> None, ids |-> {}]

Init ==
    /\ Boot
    /\ last_insert = [username |-> None, id |-> 0]
    /\ deleted_lower = NoHistory

Next ==
    \/ \E user \in UserCreates({"alice"}, {"pw1"}) : Post_register(user)
    \/ \E token \in LedgerTokens : Get_expenses(token)
    \/ \E token \in LedgerTokens, expense \in LedgerExpenses :
          Post_add_expense(token, expense)
    \/ \E token \in LedgerTokens, expense_id \in ExpenseIds,
          expense_update \in LedgerExpenses :
          Put_edit_expense(token, expense_id, expense_update)
    \/ \E token \in LedgerTokens, flag_update \in FlagUpdates({"green"}) :
          Post_flag_expense(token, flag_update)
    \/ \E token \in LedgerTokens, expense_id \in ExpenseIds :
          Delete_delete_expense(token, expense_id)

Spec == Init /\ [][Next]_vars

\* AuthSpec: the session gate with the clock running.  Every protected
\* handler and login; the tokens are the ones a login issued at time 0 or
\* issues now for the test user, alice and bob (who never registers), no
\* token, a string that is no JWT, a JWT signed with another key and a
\* signed JWT without subject
Forged(username) == Jwt("another_key", username, now + ACCESS_TOKEN_EXPIRE_MINUTES)
NoSubject == Jwt(SECRET_KEY, None, now + ACCESS_TOKEN_EXPIRE_MINUTES)
AuthTokens ==
    {IssuedAt(u, 0) : u \in Usernames} \cup {TokenOf(u) : u \in Usernames}
    \cup {NoToken, Garbage, Forged(test_user), NoSubject}

\* the ids the requests of AuthSpec name
AuthIds == {1, 2}

NextAuth ==
    \/ \E user \in UserCreates({"alice"}, {"pw1"}) : Post_register(user)
    \/ \E form_data \in UserCreates(Usernames, Passwords) : Post_token(form_data)
    \/ \E token \in AuthTokens : Get_expenses(token)
    \/ \E token \in AuthTokens : Post_add_expense(token, ValidExpense)
    \/ \E token \in AuthTokens, expense_id \in AuthIds :
          Put_edit_expense(token, expense_id, ValidExpense)
    \/ \E token \in AuthTokens, flag_update \in [id : AuthIds, flag : {"green"}] :
          Post_flag_expense(token, flag_update)
    \/ \E token \in AuthTokens, expense_id \in AuthIds :
          Delete_delete_expense(token, expense_id)
    \/ \E token \in AuthTokens, outcome \in OllamaOutcomes : Post_analyze(token, outcome)
    \/ \E token \in AuthTokens, outcome \in OllamaOutcomes : Post_chat(token, outcome)
    \/ Tick

AuthSpec == Init /\ [][NextAuth]_vars

\* IdSpec: Spec with the id add_expense assigned last in the test user's
\* ledger recorded
IdInit ==
    /\ Boot
    /\ last_insert = [username |-> test_user, id |-> 0]
    /\ deleted_lower = NoHistory

IdSpec == IdInit /\ [][Next]_vars

\* ConcSpec: every thread of the pool serves one request of the test user,
\* an add or a delete, and the threads' steps interleave in any order
NextConc ==
    \/ \E t \in Threads : Call_add_expense(t, TokenOf(test_user), ValidExpense)
    \/ \E t \in Threads : Add_204(t)
    \/ \E t \in Threads : Add_205(t)
    \/ \E t \in Threads : Add_209(t)
    \/ \E t \in Threads : Add_210(t)
    \/ \E t \in Threads, expense_id \in ExpenseIds :
          Call_delete_expense(t, TokenOf(test_user), expense_id)
    \/ \E t \in Threads : Del_238(t)
    \/ \E t \in Threads : Del_239(t)
    \/ \E t \in Threads : Del_240(t)
    \/ \E t \in Threads : Del_243(t)

ConcSpec == Init /\ [][NextConc]_vars

\* RegConcSpec: every thread of the pool serves one registration of
\* alice; once a registration of hers is acknowledged she adds expenses,
\* and the test user deletes, in requests that are served whole
RegConcInit ==
    /\ Boot
    /\ last_insert = [username |-> "alice", id |-> 0]
    /\ deleted_lower = NoHistory

NextRegConc ==
    \/ \E t \in Threads, user \in UserCreates({"alice"}, Passwords) :
          Call_register(t, user)
    \/ \E t \in Threads : Reg_169(t)
    \/ \E t \in Threads : Reg_173(t)
    \/ \E t \in Threads : Reg_174(t)
    \/ /\ \E t \in Threads : pc[t] = "reg_201"
       /\ Post_add_expense(TokenOf("alice"), ValidExpense)
    \/ \E expense_id \in ExpenseIds :
          Delete_delete_expense(TokenOf(test_user), expense_id)

RegConcSpec == RegConcInit /\ [][NextRegConc]_vars

\* ReuseSpec: the test user's list, add, edit, flag and delete requests, with
\* the ids recorded that were deleted from the ledger below its largest id
ReuseInit ==
    /\ Boot
    /\ last_insert = [username |-> None, id |-> 0]
    /\ deleted_lower = [username |-> test_user, ids |-> {}]

NextReuse ==
    \/ Get_expenses(TokenOf(test_user))
    \/ \E expense \in LedgerExpenses : Post_add_expense(TokenOf(test_user), expense)
    \/ \E expense_id \in ExpenseIds :
          Put_edit_expense(TokenOf(test_user), expense_id, ValidExpense)
    \/ \E flag_update \in FlagUpdates({"green"}) :
          Post_flag_expense(TokenOf(test_user), flag_update)
    \/ \E expense_id \in ExpenseIds :
          Delete_delete_expense(TokenOf(test_user), expense_id)

ReuseSpec == ReuseInit /\ [][NextReuse]_vars

\* RegSpec: registration and login with every username and password, for
\* usernames that are taken too, beside adds and deletes of the tenants
NextReg ==
    \/ \E user \in UserCreates({test_user, "alice"}, Passwords) : Post_register(user)
    \/ \E form_data \in UserCreates(Usernames, Passwords) : Post_token(form_data)
    \/ \E token \in LedgerTokens : Post_add_expense(token, ValidExpense)
    \/ \E token \in LedgerTokens, expense_id \in ExpenseIds :
          Delete_delete_expense(token, expense_id)

RegSpec == Init /\ [][NextReg]_vars

\* FreshSpec: two users who register with empty ledgers beside the seeded
\* test user; register, list, add and delete
Everyone == {test_user, "alice", "bob"}
EveryToken == {TokenOf(u) : u \in Everyone}

NextFresh ==
    \/ \E user \in UserCreates({"alice", "bob"}, {"pw1"}) : Post_register(user)
    \/ \E token \in EveryToken : Get_expenses(token)
    \/ \E token \in EveryToken, expense \in LedgerExpenses :
          Post_add_expense(token, expense)
    \/ \E token \in EveryToken, expense_id \in ExpenseIds :
          Delete_delete_expense(token, expense_id)

FreshSpec == Init /\ [][NextFresh]_vars

\* FlagSpec: the two tenants of Spec with every flag value a request may
\* carry, the one FlagUpdate rejects included; register, add, flag, delete
NextFlag ==
    \/ \E user \in UserCreates({"alice"}, {"pw1"}) : Post_register(user)
    \/ \E token \in LedgerTokens, expense \in LedgerExpenses :
          Post_add_expense(token, expense)
    \/ \E token \in LedgerTokens, flag_update \in FlagUpdates(FlagInputs) :
          Post_flag_expense(token, flag_update)
    \/ \E token \in LedgerTokens, expense_id \in ExpenseIds :
          Delete_delete_expense(token, expense_id)

FlagSpec == Init /\ [][NextFlag]_vars

(***************************************************************************)
(* Properties.  A handler's outcome is compared with the store it was      *)
(* called on: Stored is a ledger before the call, After a ledger after it. *)
(***************************************************************************)
Records(ue, hp, username) == IF username \in DOMAIN ue THEN hp[ue[username]] ELSE <<>>
Stored(username) == Records(user_expenses, heap, username)
After(outcome, username) == Records(outcome.ue, outcome.hp, username)
IdsOf(list) == {list[i].id : i \in DOMAIN list}
Registered(username) == username \in DOMAIN fake_users_db
SameStore(outcome) ==
    /\ outcome.db = fake_users_db
    /\ DOMAIN outcome.ue = DOMAIN user_expenses
    /\ \A u \in Usernames : After(outcome, u) = Stored(u)

\* the ledger operations called with one token and any arguments
LedgerCalls(token) ==
    {get_expenses(token)}
    \cup {add_expense(token, e) : e \in Expenses}
    \cup {edit_expense(token, id, e) : id \in ExpenseIds, e \in Expenses}
    \cup {flag_expense(token, fu) : fu \in FlagUpdates(FlagInputs)}
    \cup {delete_expense(token, id) : id \in ExpenseIds}

\* C1: tenant isolation.  In every reachable state, a ledger operation
\* (list, add, edit, flag, delete) called with a valid token of a registered
\* user A leaves the ledger of every other user B exactly as it was, whether
\* it succeeds or fails, and every record it returns is a record of A's
\* ledger.
C1_TenantIsolation ==
    \A A \in Usernames : Registered(A) =>
        \A o \in LedgerCalls(TokenOf(A)) :
            /\ \A B \in Usernames \ {A} :
                  /\ After(o, B) = Stored(B)
                  /\ (B \in DOMAIN o.ue) = (B \in DOMAIN user_expenses)
            /\ \A i \in DOMAIN o.resp.body : o.resp.body[i] \in Range(After(o, A))

\* both tenants hold records, no two alike, and alice's calls change hers
C1_Witness ==
    /\ Registered("alice")
    /\ Stored("alice") # <<>> /\ Stored(test_user) # <<>>
    /\ Range(Stored("alice")) \cap Range(Stored(test_user)) = {}
    /\ \E o \in LedgerCalls(TokenOf("alice")) :
          o.resp.status = 200 /\ After(o, "alice") # Stored("alice")

\* C2: cross-tenant lookups behave like missing ids.  When registered user A
\* calls edit (with a valid body), flag or delete with an id that is absent
\* from A's ledger and present in the ledger of another user B, the call
\* fails with 404 Not Found and no ledger changes.
TargetCalls(token, id) ==
    {edit_expense(token, id, e) : e \in ValidExpenses}
    \cup {flag_expense(token, [id |-> id, flag |-> f]) : f \in Flags}
    \cup {delete_expense(token, id)}

C2_CrossTenantNotFound ==
    \A A \in Usernames, B \in Usernames, id \in ExpenseIds :
        ( /\ A # B /\ Registered(A)
          /\ id \notin IdsOf(Stored(A))
          /\ id \in IdsOf(Stored(B)) ) =>
            \A o \in TargetCalls(TokenOf(A), id) :
                o.resp.status = 404 /\ SameStore(o)

\* alice holds a record, and names an id only the test user holds
C2_Witness ==
    /\ Registered("alice") /\ Stored("alice") # <<>>
    /\ \E id \in IdsOf(Stored(test_user)) \ IdsOf(Stored("alice")) :
          delete_expense(TokenOf("alice"), id).resp.status = 404

\* C3: single authorization checkpoint.  In every reachable state, each
\* protected operation (list, add, edit, flag, delete, analyze, chat) called
\* with no token, with a string that is no JWT, with a token signed with
\* another key, with an expired token, or with a token whose subject is
\* absent or not in the credential store answers 401 Unauthorized whatever
\* its other arguments are, calls no AI service, and leaves the credential
\* store and every ledger unchanged.
Missing(token) == token.form = "missing"
Malformed(token) == token.form = "malformed"
Unverifiable(token) == token.form = "jwt" /\ token.key # SECRET_KEY
Expired(token) == token.form = "jwt" /\ token.exp < now
UnknownSubject(token) == token.form = "jwt" /\ ~Registered(token.sub)
Rejected(token) ==
    \/ Missing(token) \/ Malformed(token) \/ Unverifiable(token)
    \/ Expired(token) \/ UnknownSubject(token)

ProtectedCalls(token) ==
    LedgerCalls(token)
    \cup {analyze_expenses(token, x) : x \in OllamaOutcomes}
    \cup {chat_with_ai(token, x) : x \in OllamaOutcomes}

C3_SingleCheckpoint ==
    \A token \in AuthTokens : Rejected(token) =>
        \A o \in ProtectedCalls(token) :
            o.resp.status = 401 /\ o.resp.calls = 0 /\ SameStore(o)

\* alice has registered and added a record, the token the test user got
\* at time 0 has expired and a delete with it is refused, though the same
\* delete with the token of a login now succeeds
C3_Witness ==
    /\ Registered("alice") /\ Stored("alice") # <<>>
    /\ Expired(IssuedAt(test_user, 0))
    /\ \E id \in IdsOf(Stored(test_user)) :
          /\ delete_expense(IssuedAt(test_user, 0), id).resp.status = 401
          /\ delete_expense(TokenOf(test_user), id).resp.status = 204

\* C4: id uniqueness.  In every state reached from the initial state (the
\* seeded ledger included) by register, add, edit, flag and delete requests
\* handled one at a time, no ledger holds two records with the same id.
C4_IdsUnique ==
    \A u \in Usernames :
        \A i \in DOMAIN Stored(u), j \in DOMAIN Stored(u) :
            Stored(u)[i].id = Stored(u)[j].id => i = j

\* the test user's ledger after a delete of a lower id and an add, beside
\* a ledger of alice that holds two records
C4_Witness ==
    /\ 1 \notin IdsOf(Stored(test_user))
    /\ MaxId \in IdsOf(Stored(test_user))
    /\ Len(Stored(test_user)) >= 2
    /\ Registered("alice")

\* C5: insert result.  An add with a valid body by registered user A appends
\* exactly one record to A's ledger; its id is 1 when the ledger is empty
\* and otherwise one more than the largest id in the ledger, its flag is
\* None, its other fields are the request's (the date as ISO string); the
\* record returned is the record stored and the records held before are
\* unchanged.
Appended(list, e) ==
    [ id |-> CHOOSE n \in 1..(MaxId + 2) :
                /\ \A i \in DOMAIN list : list[i].id < n
                /\ n = 1 \/ \E i \in DOMAIN list : list[i].id = n - 1,
      amount |-> e.amount, category |-> e.category,
      description |-> e.description,
      date |-> <<e.date.year, e.date.month, e.date.day>>, flag |-> None ]

C5_InsertResult ==
    \A A \in Usernames, e \in ValidExpenses : Registered(A) =>
        LET o == add_expense(TokenOf(A), e)
        IN  /\ o.resp.status = 201
            /\ After(o, A) = Append(Stored(A), Appended(Stored(A), e))
            /\ o.resp.body = <<Appended(Stored(A), e)>>
            /\ Stored(A) = <<>> => o.resp.body[1].id = 1

\* alice and bob registered with empty ledgers and each has added one
\* record, with id 1; the next add of the test user gets the largest id of
\* a ledger with a gap, plus 1
C5_Witness ==
    /\ Registered("alice") /\ Registered("bob")
    /\ Len(Stored("alice")) = 1 /\ Stored("alice")[1].id = 1
    /\ Len(Stored("bob")) = 1 /\ Stored("bob")[1].id = 1
    /\ IdsOf(Stored(test_user)) = {3}
    /\ add_expense(TokenOf(test_user), ValidExpense).resp.body[1].id = MaxId

\* C6 as stated: monotonic id assignment.  In the ledger being watched,
\* whatever deletes have happened since, the id the next insert gets is
\* larger than the id the last insert got, so that no id is assigned twice.
NextInsertId(username) == add_expense(TokenOf(username), ValidExpense).resp.body[1].id

C6_MonotonicIds ==
    (last_insert.username # None /\ last_insert.id # 0) =>
        NextInsertId(last_insert.username) > last_insert.id

\* C6 amended: the id the next insert gets is larger than the id the last
\* insert got as long as the record inserted last is still in the ledger,
\* whatever other records have been deleted since; it is larger than every
\* id the ledger holds at that time; and once the record inserted last has
\* been deleted, the next insert gets an id that is not larger than its id.
C6_MonotonicWhileKept ==
    (last_insert.username # None /\ last_insert.id # 0) =>
        LET ids == IdsOf(Stored(last_insert.username))
            next_id == NextInsertId(last_insert.username)
        IN  /\ \A id \in ids : next_id > id
            /\ last_insert.id \in ids => next_id > last_insert.id
            /\ last_insert.id \notin ids => next_id <= last_insert.id

\* the test user's last insert got id 3, the record is still there, the
\* record with id 2 that was the largest before has been deleted since,
\* and the next insert gets id 4
C6_Witness ==
    /\ last_insert = [username |-> test_user, id |-> 3]
    /\ IdsOf(Stored(test_user)) = {1, 3}
    /\ NextInsertId(test_user) = 4

\* C7 as stated: concurrent inserts keep ids unique.  While the threads
\* serve add requests only, their steps interleaved in any order, no
\* ledger holds two records with the same id and no two add requests of
\* one user that have returned got the same id.
AddLines == {"idle", "add_204", "add_205", "add_209", "add_210", "add_201"}

C7_ConcurrentIdsUnique ==
    (\A t \in Threads : pc[t] \in AddLines) =>
        /\ \A u \in Usernames :
              \A i \in DOMAIN Stored(u), j \in DOMAIN Stored(u) :
                  i # j => Stored(u)[i].id # Stored(u)[j].id
        /\ \A t1 \in Threads, t2 \in Threads :
              ( /\ t1 # t2
                /\ pc[t1] = "add_201" /\ pc[t2] = "add_201"
                /\ loc[t1].username = loc[t2].username ) =>
                  loc[t1].new_id # loc[t2].new_id

\* C8 as stated: concurrent insert and delete are serialized.  When an add
\* and a delete of the test user are the only requests served, their steps
\* interleaved in any order, and both have returned with success, the
\* ledger is the one that the add followed by the delete, or the delete
\* followed by the add, leaves of the initial ledger.
AddThenDelete(user_db, expense, expense_id) ==
    WithoutId(Append(user_db, NewExpenseData(expense, NewId(user_db))), expense_id)

DeleteThenAdd(user_db, expense, expense_id) ==
    Append(WithoutId(user_db, expense_id),
           NewExpenseData(expense, NewId(WithoutId(user_db, expense_id))))

C8_InsertDeleteSerialized ==
    \A t1 \in Threads, t2 \in Threads :
        ( /\ pc[t1] = "add_201" /\ pc[t2] = "del_204"
          /\ \A t \in Threads \ {t1, t2} : pc[t] = "idle" ) =>
            Stored(test_user) \in
                { AddThenDelete(SeedExpenses, loc[t1].expense, loc[t2].expense_id),
                  DeleteThenAdd(SeedExpenses, loc[t1].expense, loc[t2].expense_id) }

\* C9: edit frame.  An edit of id with a valid body by registered user A
\* succeeds when A's ledger holds the id: amount, category, description and
\* date of that record become the request's, its id, its flag and its
\* position stay, every other record stays, and the updated record is
\* returned; it fails with 404 and changes nothing when A's ledger does not
\* hold the id.
Edited(item, e) ==
    [ id |-> item.id, amount |-> e.amount, category |-> e.category,
      description |-> e.description,
      date |-> <<e.date.year, e.date.month, e.date.day>>, flag |-> item.flag ]

C9_EditFrame ==
    \A A \in Usernames, id \in ExpenseIds, e \in ValidExpenses : Registered(A) =>
        LET o == edit_expense(TokenOf(A), id, e)
            old == Stored(A)
        IN  IF id \in IdsOf(old)
            THEN /\ o.resp.status = 200
                 /\ After(o, A) = [i \in DOMAIN old |->
                                     IF old[i].id = id THEN Edited(old[i], e) ELSE old[i]]
                 /\ \E i \in DOMAIN old : old[i].id = id /\ o.resp.body = <<Edited(old[i], e)>>
                 /\ \A B \in Usernames \ {A} : After(o, B) = Stored(B)
            ELSE o.resp.status = 404 /\ SameStore(o)

\* the test user has edited the second, red record of the seeded ledger,
\* which kept its id, flag and place between the two others, and lacks an
\* id
C9_Witness ==
    /\ Len(Stored(test_user)) = 3
    /\ Stored(test_user)[1] = SeedExpenses[1]
    /\ Stored(test_user)[2] = Edited(SeedExpenses[2], ValidExpense)
    /\ Stored(test_user)[2].flag = "red"
    /\ Stored(test_user)[3] = SeedExpenses[3]
    /\ \E id \in ExpenseIds :
          edit_expense(TokenOf(test_user), id, ValidExpense).resp.status = 404

\* C10: flag frame.  A flag request (id, f) with f red or green by
\* registered user A succeeds when A's ledger holds the id: the flag of
\* that record becomes f, its other fields and its position stay, every
\* other record stays, and the record is returned; it fails with 404 and
\* changes nothing when A's ledger does not hold the id.  A request with
\* another flag value is rejected and changes nothing, and in every
\* reachable state every record's flag is None, red or green.
Flagged(item, f) ==
    [ id |-> item.id, amount |-> item.amount, category |-> item.category,
      description |-> item.description, date |-> item.date, flag |-> f ]

C10_FlagFrame ==
    /\ \A u \in Usernames : \A i \in DOMAIN Stored(u) :
          Stored(u)[i].flag \in {None, "red", "green"}
    /\ \A A \in Usernames, id \in ExpenseIds, f \in FlagInputs : Registered(A) =>
          LET o == flag_expense(TokenOf(A), [id |-> id, flag |-> f])
              old == Stored(A)
          IN  IF f \notin {"red", "green"}
              THEN o.resp.status = 422 /\ SameStore(o)
              ELSE IF id \in IdsOf(old)
              THEN /\ o.resp.status = 200
                   /\ After(o, A) = [i \in DOMAIN old |->
                                       IF old[i].id = id THEN Flagged(old[i], f) ELSE old[i]]
                   /\ \E i \in DOMAIN old : old[i].id = id /\ o.resp.body = <<Flagged(old[i], f)>>
                   /\ \A B \in Usernames \ {A} : After(o, B) = Stored(B)
              ELSE o.resp.status = 404 /\ SameStore(o)

\* alice has flagged a record of hers red beside an unflagged one, a flag
\* request of the test user would change a flag from red to green, and
\* the test user lacks an id
C10_Witness ==
    /\ Registered("alice")
    /\ \E i \in DOMAIN Stored("alice"), j \in DOMAIN Stored("alice") :
          Stored("alice")[i].flag = "red" /\ Stored("alice")[j].flag = None
    /\ \E i \in DOMAIN Stored(test_user) :
          /\ Stored(test_user)[i].flag = "red"
          /\ After(flag_expense(TokenOf(test_user),
                                [id |-> Stored(test_user)[i].id, flag |-> "green"]),
                   test_user)[i].flag = "green"
    /\ \E id \in ExpenseIds :
          flag_expense(TokenOf(test_user), [id |-> id, flag |-> "red"]).resp.status = 404

\* C11: delete.  A delete of id by registered user A succeeds with 204 when
\* A's ledger holds the id: exactly the record with that id is gone, the
\* other records stay, in their order, and no other ledger changes; it
\* fails with 404 and changes nothing when A's ledger does not hold the id,
\* as it does in the state a successful delete of the id leaves.
Remaining(list, id) ==
    LET Kept(item) == item.id # id
    IN  SelectSeq(list, Kept)

C11_Delete ==
    \A A \in Usernames, id \in ExpenseIds : Registered(A) =>
        LET o == delete_expense(TokenOf(A), id)
            old == Stored(A)
        IN  IF id \in IdsOf(old)
            THEN /\ o.resp.status = 204
                 /\ After(o, A) = Remaining(old, id)
                 /\ Len(After(o, A)) = Len(old) - 1
                 /\ id \notin IdsOf(After(o, A))
                 /\ o.db = fake_users_db
                 /\ \A B \in Usernames \ {A} : After(o, B) = Stored(B)
            ELSE o.resp.status = 404 /\ SameStore(o)

\* the test user has deleted the first record and then the record with
\* id 3, now the first of two, after an add; a second delete of id 3 is
\* refused
C11_Witness ==
    /\ Len(Stored(test_user)) = 2
    /\ Stored(test_user)[1] = SeedExpenses[2]
    /\ Stored(test_user)[2].id = 4
    /\ delete_expense(TokenOf(test_user), 3).resp.status = 404
    /\ delete_expense(TokenOf(test_user), 4).resp.status = 204

\* C12: list.  In every reachable state, a list by registered user A
\* answers 200 with the records of A's ledger, each as often as the ledger
\* holds it (none for an empty ledger), no date in it followed by a later
\* date, and leaves the credential store and every ledger unchanged.
Count(list, item) == Cardinality({i \in DOMAIN list : list[i] = item})

Later(a, b) ==
    \/ a[1] > b[1]
    \/ a[1] = b[1] /\ a[2] > b[2]
    \/ a[1] = b[1] /\ a[2] = b[2] /\ a[3] > b[3]

C12_List ==
    \A A \in Usernames : Registered(A) =>
        LET o == get_expenses(TokenOf(A))
            body == o.resp.body
        IN  /\ o.resp.status = 200
            /\ Len(body) = Len(Stored(A))
            /\ \A item \in Range(body) \cup Range(Stored(A)) :
                  Count(body, item) = Count(Stored(A), item)
            /\ \A i \in DOMAIN body, j \in DOMAIN body :
                  i < j => ~Later(body[j].date, body[i].date)
            /\ SameStore(o)

\* the test user's ledger is stored out of date order, so that the list
\* differs from it, and alice's ledger is empty
C12_Witness ==
    /\ Registered("alice") /\ Stored("alice") = <<>>
    /\ get_expenses(TokenOf("alice")).resp.body = <<>>
    /\ \E i \in DOMAIN Stored(test_user), j \in DOMAIN Stored(test_user) :
          i < j /\ Later(Stored(test_user)[j].date, Stored(test_user)[i].date)
    /\ get_expenses(TokenOf(test_user)).resp.body # Stored(test_user)

\* C13: positive amounts.  An add or an edit (of any id) by a registered
\* user with an amount that is zero or negative is rejected with 422 and
\* changes nothing, and in every reachable state every record of every
\* ledger, and so every record a list returns, has an amount above zero.
C13_PositiveAmount ==
    /\ \A u \in Usernames : \A i \in DOMAIN Stored(u) : Stored(u)[i].amount > 0
    /\ \A A \in Usernames : Registered(A) =>
          /\ \A i \in DOMAIN get_expenses(TokenOf(A)).resp.body :
                get_expenses(TokenOf(A)).resp.body[i].amount > 0
          /\ \A e \in Expenses : e.amount <= 0 =>
                /\ add_expense(TokenOf(A), e).resp.status = 422
                /\ SameStore(add_expense(TokenOf(A), e))
                /\ \A id \in ExpenseIds :
                      /\ edit_expense(TokenOf(A), id, e).resp.status = 422
                      /\ SameStore(edit_expense(TokenOf(A), id, e))

\* alice holds a record she added, the test user one that was edited, and
\* an add with amount zero by alice is rejected
C13_Witness ==
    /\ Registered("alice") /\ Len(Stored("alice")) = 1
    /\ \E i \in DOMAIN Stored(test_user) :
          Stored(test_user)[i] = Edited(SeedExpenses[i], ValidExpense)
    /\ add_expense(TokenOf("alice"), [ValidExpense EXCEPT !.amount = 0]).resp.status = 422

\* C20: list tie-break.  In every reachable state, two records of the
\* ledger of registered user A that carry the same date appear in A's list
\* in the order in which the ledger stores them.
Place(list, item) == CHOOSE i \in DOMAIN list : list[i] = item

C20_ListTieBreak ==
    \A A \in Usernames : Registered(A) =>
        LET body == get_expenses(TokenOf(A)).resp.body
            old == Stored(A)
        IN  \A i \in DOMAIN old, j \in DOMAIN old :
                (i < j /\ old[i].date = old[j].date) =>
                    Place(body, old[i]) < Place(body, old[j])

\* the test user's first record was edited to the date a record added
\* last carries, a record of an earlier date is stored between the two,
\* and the list returns the edited record, the added one, the earlier one
C20_Witness ==
    /\ Len(Stored(test_user)) = 3
    /\ Stored(test_user)[1] = Edited(SeedExpenses[1], ValidExpense)
    /\ Stored(test_user)[2] = SeedExpenses[3]
    /\ Stored(test_user)[3].date = Stored(test_user)[1].date
    /\ get_expenses(TokenOf(test_user)).resp.body =
          << Stored(test_user)[1], Stored(test_user)[3], Stored(test_user)[2] >>

\* C14: duplicate registration.  A register request for a username that
\* is in the credential store answers 400 and leaves the credential store
\* and every ledger unchanged; a register request for a new username with
\* password p stores a hash that p and no other password matches, beside
\* an empty ledger; and no step, a refused registration included, changes
\* for any registered username which passwords log in: the password of
\* the first registration does, the password of a refused one does not.
LoginOk(username, password) ==
    login_for_access_token([username |-> username, password |-> password]).resp.status = 200

C14_Refused ==
    \A u \in Usernames, p \in Passwords :
        LET o == register_user([username |-> u, password |-> p])
        IN  IF Registered(u)
            THEN o.resp.status = 400 /\ SameStore(o)
            ELSE /\ o.resp.status = 201
                 /\ After(o, u) = <<>>
                 /\ \A q \in Passwords :
                       verify_password(q, o.db[u].hashed_password) = (q = p)

C14_LoginKept ==
    \A u \in Usernames, p \in Passwords :
        Registered(u) => LoginOk(u, p)' = LoginOk(u, p)

C14_DuplicateRegistration == []C14_Refused /\ [][C14_LoginKept]_vars

\* alice registered with pw1 and holds a record; a registration of alice
\* with the other password is refused, pw1 logs her in and the other
\* password does not
C14_Witness ==
    /\ Registered("alice") /\ Stored("alice") # <<>>
    /\ register_user([username |-> "alice", password |-> "password123"]).resp.status = 400
    /\ LoginOk("alice", "pw1")
    /\ ~LoginOk("alice", "password123")

\* C17: login outcome.  Login with username u and password p answers 200
\* with a bearer token of subject u exactly when u is registered and the
\* stored hash is the hash of p; every other login, for an unknown
\* username or with a wrong password, gets one and the same 401 answer
\* without token; and login leaves the credential store and every ledger
\* unchanged.
StoredHashOf(username, password) ==
    /\ Registered(username)
    /\ fake_users_db[username].hashed_password = [scheme |-> "bcrypt", digest |-> password]

C17_LoginOutcome ==
    \A u \in Usernames, p \in Passwords :
        LET o == login_for_access_token([username |-> u, password |-> p])
        IN  /\ SameStore(o)
            /\ IF StoredHashOf(u, p)
               THEN /\ o.resp.status = 200
                    /\ o.resp.token.form = "jwt"
                    /\ o.resp.token.key = SECRET_KEY
                    /\ o.resp.token.sub = u
               ELSE /\ o.resp.status = 401
                    /\ o.resp.token = NoToken
                    /\ \A v \in Usernames, q \in Passwords :
                          ~StoredHashOf(v, q) =>
                              login_for_access_token([username |-> v, password |-> q]).resp
                                  = o.resp

\* alice registered with password123 beside the test user: her login with
\* pw1 and the login of bob, who is unknown, get the same answer, and her
\* login with password123 gets a token of hers
C17_Witness ==
    /\ StoredHashOf("alice", "password123")
    /\ ~Registered("bob")
    /\ login_for_access_token([username |-> "alice", password |-> "pw1"]).resp
          = login_for_access_token([username |-> "bob", password |-> "pw1"]).resp
    /\ login_for_access_token([username |-> "alice", password |-> "password123"]).resp.token.sub
          = "alice"

\* C15 as stated: concurrent registration is a critical section.  While
\* the threads serve registrations of one new username, their steps
\* interleaved in any order, no two of them are acknowledged with 201; once
\* no registration is under way, the stored hash is the hash of the
\* password of the one acknowledged; and the record alice added last,
\* after an acknowledgement, is in her ledger (she deletes nothing).
RegLines == {"reg_169", "reg_173", "reg_174"}

C15_RegistrationCritical ==
    /\ \A t1 \in Threads, t2 \in Threads :
          ( /\ t1 # t2
            /\ pc[t1] = "reg_201" /\ pc[t2] = "reg_201" ) =>
              loc[t1].username # loc[t2].username
    /\ \A t \in Threads :
          ( /\ pc[t] = "reg_201"
            /\ \A t2 \in Threads : pc[t2] \notin RegLines ) =>
              verify_password(loc[t].password,
                              fake_users_db[loc[t].username].hashed_password)
    /\ (last_insert.username # None /\ last_insert.id # 0) =>
          last_insert.id \in IdsOf(Stored(last_insert.username))

\* C16: token lifetime.  The token a successful login of u returns at time
\* t is signed with the service's key and carries subject u and expiry
\* t + 30; a token issued without expires_delta carries expiry t + 15.  A
\* token issued at a time t up to now for u resolves to u while now is
\* before its expiry and u is registered, is answered 401 once now is past
\* its expiry, and is answered 401 when u is not registered.
Lifetime(token, username) ==
    LET current_user == get_current_user(token)
    IN  /\ (now < token.exp /\ Registered(username)) =>
              current_user = [username |-> username, status |-> 200]
        /\ now > token.exp => current_user.status = 401
        /\ ~Registered(username) => current_user.status = 401

C16_TokenLifetime ==
    /\ \A u \in Usernames, p \in Passwords :
          LET o == login_for_access_token([username |-> u, password |-> p])
          IN  o.resp.status = 200 =>
                  o.resp.token = [form |-> "jwt", key |-> SECRET_KEY, sub |-> u,
                                  exp |-> now + 30]
    /\ \A u \in Usernames, t \in 0..now :
          /\ create_access_token([sub |-> u], NoDelta, t).exp = t + 15
          /\ create_access_token([sub |-> u], NoDelta, t).sub = u
          /\ Lifetime(create_access_token([sub |-> u], NoDelta, t), u)
          /\ Lifetime([form |-> "jwt", key |-> SECRET_KEY, sub |-> u, exp |-> t + 30], u)

\* at minute 31 alice is registered, the token her login got at minute 15
\* resolves to her, the token the test user got at minute 0 is refused,
\* and so is a token of bob, who is not registered
C16_Witness ==
    /\ now = 31
    /\ Registered("alice")
    /\ get_current_user(IssuedAt("alice", 15)).username = "alice"
    /\ get_current_user(IssuedAt(test_user, 0)).status = 401
    /\ get_current_user(TokenOf("bob")).status = 401

\* C18 as stated: advisory error translation.  For registered user A and
\* every behaviour of the AI service, analyze on a non-empty ledger and
\* chat on any ledger call the service once and answer 200 when it
\* answers, 504 (AITimeout) when it times out, 503 (AIUnavailable) when
\* the connection fails and 500 (AIUnexpected) on any other failure;
\* analyze on an empty ledger answers 200 without a call; and neither
\* changes the credential store or a ledger.
Translated(outcome) ==
    IF outcome = "ok" THEN 200
    ELSE IF outcome = "Timeout" THEN 504
    ELSE IF outcome = "ConnectionError" THEN 503
    ELSE 500

C18_AdvisoryErrors ==
    \A A \in Usernames, x \in OllamaOutcomes : Registered(A) =>
        LET summary == analyze_expenses(TokenOf(A), x)
            answer == chat_with_ai(TokenOf(A), x)
        IN  /\ SameStore(summary) /\ SameStore(answer)
            /\ IF Stored(A) = <<>>
               THEN summary.resp.status = 200 /\ summary.resp.calls = 0
               ELSE summary.resp.status = Translated(x) /\ summary.resp.calls = 1
            /\ answer.resp.status = Translated(x) /\ answer.resp.calls = 1

C19_NotReusedBelowMax ==
    deleted_lower.username # None =>
        LET ids == IdsOf(Stored(deleted_lower.username))
            next_id == NextInsertId(deleted_lower.username)
        IN  \A d \in deleted_lower.ids :
                /\ (\E id \in ids : id > d) => next_id # d
                /\ (next_id = d) = (Max(ids \cup {0}) = d - 1)

C19_HighestReused ==
    \A u \in Usernames :
        LET ids == IdsOf(Stored(u))
        IN  ( /\ Registered(u) /\ ids # {}
              /\ IdsOf(Stored(u))' = ids \ {Max(ids)} ) =>
                /\ NextInsertId(u)' = Max((ids \ {Max(ids)}) \cup {0}) + 1
                /\ NextInsertId(u)' <= Max(ids)
                /\ (Max(ids) - 1 \in ids \cup {0}) => NextInsertId(u)' = Max(ids)

====
